---- MODULE Spec2Model ----
(***************************************************************************)
(* Activity timeline: the page-level coordinator (Home), the infinitely    *)
(* scrolling ActivityTimelineTable and the events endpoint it pages        *)
(* through.  Every action is one turn of the client's event loop: a user   *)
(* event or the settling of one fetch, the batched state updates of its    *)
(* handler and the effects React runs for the dependencies it changed.     *)
(***************************************************************************)
EXTENDS Integers, Sequences, FiniteSets, TLC

VARIABLES
    events,            \* table: loaded rows (event ids), first row first
    persons,           \* table: ids of the side-loaded persons
    loading,           \* table: initial / replace load in progress
    loadingMore,       \* table: infinite-scroll load in progress
    hasNext,           \* table: more pages available
    currentPage,       \* table: page number of the last response
    error,             \* table: null or the failure message
    inView,            \* useInView: the scroll sentinel is reported in view
    navigateToDate,    \* page: pending navigation request ('' when none)
    visibleStartDate,  \* page: oldest date of the loaded rows ('' at start)
    visibleEndDate,    \* page: newest date of the loaded rows ('' at start)
    issued,            \* every call of ApiService.fetchActivityEvents so far
    status,            \* per call: "pending", "ok" or "failed"
    listFrom,          \* history: the call whose response last replaced the rows
    lastFailed,        \* history: the call that failed last
    lastOp,            \* history: the event-loop turn that produced this state
    timeZone,          \* rendering: offset of local time from UTC, in ticks
    timestamps,        \* rendering: timestamps of the rows of one render
    gaps,              \* rendering: per row, the gap and whether it is shown
    timelineData,      \* minimap: the buckets of the timeline response
    firstTouchpoints,  \* minimap: the touchpoints of the timeline response
    minimapLoading,    \* minimap: the component's loading state
    minimapError,      \* minimap: the component's error state
    clientWidth,       \* minimap: chartRef.current?.clientWidth (0: none)
    touchpointMarkers, \* minimap: the memoized markers
    timelineFetches,   \* minimap: calls of ApiService.fetchTimelineData so far
    minimapOp,         \* history: the minimap's turn that produced this state
    apiCall,           \* ApiService: the call under way and its arguments
    requests,          \* ApiService: the requests the call has sent
    outcome,           \* ApiService: what the call's fetch settled with
    apiResult,         \* ApiService: what the call's promise settled with
    wait,              \* debounce: the wait of the debounced function
    now,               \* debounce: the clock
    timers,            \* debounce: the timers set and not yet run or cleared
    timeout,           \* debounce: the closure's handle of its last timer
    debounceCalls,     \* history: the calls of the debounced function
    invocations,       \* history: the invocations of func
    dataset,           \* timeline endpoint: the events in scope, by id
    timeline           \* timeline endpoint: the aggregation it returns

timelineVars == <<events, persons, loading, loadingMore, hasNext, currentPage,
                  error, inView, navigateToDate, visibleStartDate,
                  visibleEndDate, issued, status, listFrom, lastFailed, lastOp>>
gapVars == <<timeZone, timestamps, gaps>>
minimapVars == <<timelineData, firstTouchpoints, minimapLoading, minimapError,
                 clientWidth, touchpointMarkers, timelineFetches, minimapOp>>
apiVars == <<apiCall, requests, outcome, apiResult>>
debounceVars == <<wait, now, timers, timeout, debounceCalls, invocations>>
serverVars == <<dataset, timeline>>
libVars == <<apiVars, debounceVars, serverVars>>
vars == <<timelineVars, gapVars, minimapVars, libVars>>

----------------------------------------------------------------------------
(* Bounds of the model *)

MaxFetches == 3       \* fetches issued in one run
EventsPerDay == 60    \* events of the dataset on each calendar day
NumDays == 2          \* calendar days that carry events
NumPersons == 3       \* persons referenced by the dataset

(* Constants of the program *)

PageSize == 50        \* loadEvents always asks for 50 rows

(* Values *)

null == "null"        \* JavaScript null (error)
undefined == -1       \* JavaScript undefined (targetDate)
EmptyDate == 0        \* the empty string '' where a date string is expected
FirstDay == 2         \* day 1 precedes every event of the dataset
LastDay == FirstDay + NumDays - 1
NavDates == 1..LastDay
ErrorMessage == "Failed to fetch activity events: Internal Server Error"

Min(a, b) == IF a <= b THEN a ELSE b
Max(a, b) == IF a >= b THEN a ELSE b

----------------------------------------------------------------------------
(* The dataset behind the events endpoint: static for a session.  Event    *)
(* ids are assigned in chronological order; two consecutive events share   *)
(* a timestamp, so that the id breaks ties.                                *)

NumEvents == NumDays * EventsPerDay
EventIds == 1..NumEvents

Timestamp(e) ==
    [date |-> FirstDay + ((e - 1) \div EventsPerDay),
     time |-> ((e - 1) % EventsPerDay) \div 2]

\* timestamp.split('T')[0]: the YYYY-MM-DD prefix of an ISO timestamp
DatePrefix(ts) == ts.date

PeopleOf(e) == {(e % NumPersons) + 1}

\* a is later than b in the total order by (timestamp, id)
Later(a, b) ==
    LET ta == Timestamp(a)
        tb == Timestamp(b)
    IN \/ ta.date > tb.date
       \/ ta.date = tb.date /\ ta.time > tb.time
       \/ ta = tb /\ a > b

\* events in scope, bounded by the cursor date when one is given
Matching(date) ==
    IF date = undefined THEN EventIds
    ELSE {e \in EventIds : DatePrefix(Timestamp(e)) <= date}

\* fetchPage: page `page` of the descending listing bounded by `date`
FetchPage(page, pageSize, date) ==
    LET S == Matching(date)
        total == Cardinality(S)
        first == (page - 1) * pageSize
        len == Max(0, Min(pageSize, total - first))
        \* ids are chronological, so the listing of S is its ids downwards
        evs == [i \in 1..len |-> total - first - i + 1]
    IN [events |-> evs,
        persons |-> UNION {PeopleOf(evs[i]) : i \in 1..len},
        pagination |-> [current_page |-> page,
                        has_next |-> page * pageSize < total]]

----------------------------------------------------------------------------
(* ApiService *)

\* the request fetchActivityEvents sends: date only for a truthy targetDate
FetchActivityEvents(page, pageSize, targetDate) ==
    FetchPage(page, pageSize,
              IF targetDate \in {undefined, EmptyDate} THEN undefined
              ELSE targetDate)

----------------------------------------------------------------------------
(* Home: the page-level coordinator *)

Page ==
    [visibleStartDate |-> visibleStartDate, visibleEndDate |-> visibleEndDate,
     navigateToDate |-> navigateToDate]

HandleVisibleRangeChange(p, startDate, endDate) ==
    [p EXCEPT !.visibleStartDate = startDate, !.visibleEndDate = endDate]

\* variant: a date click also resets the visible range
HandleDateClickResettingRange(p, date) ==
    [p EXCEPT !.navigateToDate = date, !.visibleStartDate = EmptyDate,
              !.visibleEndDate = EmptyDate]

HandleDateClick(p, date) == [p EXCEPT !.navigateToDate = date]

\* variant: the pending request is not cleared
HandleNavigationCompleteKeeping(p) == p

HandleNavigationComplete(p) == [p EXCEPT !.navigateToDate = EmptyDate]

----------------------------------------------------------------------------
(* ActivityTimelineTable *)

Table ==
    [events |-> events, persons |-> persons, loading |-> loading,
     loadingMore |-> loadingMore, hasNext |-> hasNext,
     currentPage |-> currentPage, error |-> error]

Request(page, targetDate, append) ==
    [page |-> page, pageSize |-> PageSize, targetDate |-> targetDate,
     append |-> append]

\* mount effect: loadEvents(1)
InitialRequest == Request(1, undefined, FALSE)

\* variant: the navigation appends
NavigationRequestAppending(d) == Request(1, d, TRUE)

\* navigation effect: loadEvents(1, navigateToDate, false)
NavigationRequest(d) == Request(1, d, FALSE)

\* infinite-scroll effect: loadEvents(currentPage + 1, undefined, true)
LoadMoreRequest(page) == Request(page + 1, undefined, TRUE)

\* variant: the retry appends
RetryRequestAppending == Request(1, undefined, TRUE)

\* Retry button: loadEvents(1)
RetryRequest == Request(1, undefined, FALSE)

\* loadEvents up to its await: the loading flag of the fetch mode
LoadEventsStart(t, r) ==
    IF r.append THEN [t EXCEPT !.loadingMore = TRUE]
    ELSE [t EXCEPT !.loading = TRUE]

\* variant: a failure drops the loaded rows
LoadEventsSettleClearing(t, r, ok) ==
    LET response == FetchActivityEvents(r.page, r.pageSize, r.targetDate)
        done == IF ok
                THEN [t EXCEPT
                        !.events = IF r.append THEN t.events \o response.events
                                   ELSE response.events,
                        !.persons = t.persons \cup response.persons,
                        !.hasNext = response.pagination.has_next,
                        !.currentPage = response.pagination.current_page,
                        !.error = null]
                ELSE [t EXCEPT !.error = ErrorMessage, !.events = <<>>]
    IN [done EXCEPT !.loading = FALSE, !.loadingMore = FALSE]

\* variant: every response replaces the rows
LoadEventsSettleReplacing(t, r, ok) ==
    LET response == FetchActivityEvents(r.page, r.pageSize, r.targetDate)
        done == IF ok
                THEN [t EXCEPT
                        !.events = response.events,
                        !.persons = t.persons \cup response.persons,
                        !.hasNext = response.pagination.has_next,
                        !.currentPage = response.pagination.current_page,
                        !.error = null]
                ELSE [t EXCEPT !.error = ErrorMessage]
    IN [done EXCEPT !.loading = FALSE, !.loadingMore = FALSE]

\* variant: the persons of the response replace the map
LoadEventsSettleDroppingPersons(t, r, ok) ==
    LET response == FetchActivityEvents(r.page, r.pageSize, r.targetDate)
        done == IF ok
                THEN [t EXCEPT
                        !.events = IF r.append THEN t.events \o response.events
                                   ELSE response.events,
                        !.persons = response.persons,
                        !.hasNext = response.pagination.has_next,
                        !.currentPage = response.pagination.current_page,
                        !.error = null]
                ELSE [t EXCEPT !.error = ErrorMessage]
    IN [done EXCEPT !.loading = FALSE, !.loadingMore = FALSE]

\* variant: a success leaves the error as it is
LoadEventsSettleKeepingError(t, r, ok) ==
    LET response == FetchActivityEvents(r.page, r.pageSize, r.targetDate)
        done == IF ok
                THEN [t EXCEPT
                        !.events = IF r.append THEN t.events \o response.events
                                   ELSE response.events,
                        !.persons = t.persons \cup response.persons,
                        !.hasNext = response.pagination.has_next,
                        !.currentPage = response.pagination.current_page]
                ELSE [t EXCEPT !.error = ErrorMessage]
    IN [done EXCEPT !.loading = FALSE, !.loadingMore = FALSE]

\* variant: no finally block, the loading flags are left as they are
LoadEventsSettleKeepingFlags(t, r, ok) ==
    LET response == FetchActivityEvents(r.page, r.pageSize, r.targetDate)
    IN IF ok
       THEN [t EXCEPT
               !.events = IF r.append THEN t.events \o response.events
                          ELSE response.events,
               !.persons = t.persons \cup response.persons,
               !.hasNext = response.pagination.has_next,
               !.currentPage = response.pagination.current_page,
               !.error = null]
       ELSE [t EXCEPT !.error = ErrorMessage]

\* loadEvents after its await: try / catch / finally in one batch
LoadEventsSettle(t, r, ok) ==
    LET response == FetchActivityEvents(r.page, r.pageSize, r.targetDate)
        done == IF ok
                THEN [t EXCEPT
                        !.events = IF r.append THEN t.events \o response.events
                                   ELSE response.events,
                        !.persons = t.persons \cup response.persons,
                        !.hasNext = response.pagination.has_next,
                        !.currentPage = response.pagination.current_page,
                        !.error = null]
                ELSE [t EXCEPT !.error = ErrorMessage]
    IN [done EXCEPT !.loading = FALSE, !.loadingMore = FALSE]

\* dependencies of the infinite-scroll effect
ScrollDeps(t, iv) == <<iv, t.hasNext, t.loading, t.loadingMore, t.currentPage>>

\* variant: the condition does not look at hasNext
ScrollConditionAnyPage(t, iv) == iv /\ ~t.loading /\ ~t.loadingMore

\* the condition of the infinite-scroll effect
ScrollCondition(t, iv) == iv /\ t.hasNext /\ ~t.loading /\ ~t.loadingMore

\* the sentinel row is rendered: not the loading view, not the error view
SentinelMounted(t) ==
    /\ ~(t.loading /\ Len(t.events) = 0)
    /\ t.error = null
    /\ t.hasNext

\* the Retry button is rendered: the error view
RetryRendered(t) ==
    /\ ~(t.loading /\ Len(t.events) = 0)
    /\ t.error # null

\* variant: the range taken newest first
VisibleRangeSwapped(evs) ==
    <<DatePrefix(Timestamp(evs[1])), DatePrefix(Timestamp(evs[Len(evs)]))>>

\* visible-range effect: (date of the last row, date of the first row)
VisibleRange(evs) ==
    <<DatePrefix(Timestamp(evs[Len(evs)])), DatePrefix(Timestamp(evs[1]))>>

\* the log entry of a call: the request and the calls outstanding when it
\* was made
Issue(r, kind, st) ==
    [page |-> r.page, pageSize |-> r.pageSize, targetDate |-> r.targetDate,
     append |-> r.append, kind |-> kind,
     outstanding |-> {i \in 1..Len(st) : st[i] = "pending"}]

(* The end of an event-loop turn: the effects of the committed render.    *)
(* t, p: table and page after the handler's batch; iv: what useInView     *)
(* reports in that render; log, st: the calls and their statuses after    *)
(* the handler; evSet: setEvents was called; op: the turn.                *)
Commit(t, p, iv, log, st, evSet, op) ==
    LET \* navigation effect: runs when navigateToDate changed
        nav == p.navigateToDate # navigateToDate /\ p.navigateToDate # EmptyDate
        navReq == NavigationRequest(p.navigateToDate)
        t1 == IF nav THEN LoadEventsStart(t, navReq) ELSE t
        log1 == IF nav THEN Append(log, Issue(navReq, "navigation", st)) ELSE log
        st1 == IF nav THEN Append(st, "pending") ELSE st
        p1 == IF nav THEN HandleNavigationComplete(p) ELSE p
        \* infinite-scroll effect: runs when one of its dependencies changed
        fire == /\ ScrollDeps(t, iv) # ScrollDeps(Table, inView)
                /\ ScrollCondition(t, iv)
        more == LoadMoreRequest(t.currentPage)
        t2 == IF fire THEN LoadEventsStart(t1, more) ELSE t1
        log2 == IF fire THEN Append(log1, Issue(more, "loadMore", st1)) ELSE log1
        st2 == IF fire THEN Append(st1, "pending") ELSE st1
        \* visible-range effect: runs when the events array changed
        p2 == IF evSet /\ Len(t.events) > 0
              THEN HandleVisibleRangeChange(p1, VisibleRange(t.events)[1],
                                            VisibleRange(t.events)[2])
              ELSE p1
    IN /\ Len(log2) <= MaxFetches
       /\ events' = t2.events
       /\ persons' = t2.persons
       /\ loading' = t2.loading
       /\ loadingMore' = t2.loadingMore
       /\ hasNext' = t2.hasNext
       /\ currentPage' = t2.currentPage
       /\ error' = t2.error
       \* useInView resets to false once its element is unmounted
       /\ inView' = (iv /\ SentinelMounted(t2))
       /\ navigateToDate' = p2.navigateToDate
       /\ visibleStartDate' = p2.visibleStartDate
       /\ visibleEndDate' = p2.visibleEndDate
       /\ issued' = log2
       /\ status' = st2
       /\ lastOp' = [op EXCEPT !.auto = fire,
                                !.complete = nav,
                                !.emits = IF evSet /\ Len(t.events) > 0
                                          THEN 1 ELSE 0]
       /\ UNCHANGED <<gapVars, minimapVars, libVars>>

\* a turn: what happened (op, id, ok, date) and what its effects did: auto,
\* the infinite-scroll effect made a call; complete, onNavigationComplete
\* was called; emits, the number of calls of onVisibleRangeChange
Op(name, id, ok, date) ==
    [op |-> name, id |-> id, ok |-> ok, date |-> date, auto |-> FALSE,
     complete |-> FALSE, emits |-> 0]

----------------------------------------------------------------------------
(* State after the first render and its effects: the mount effect has      *)
(* called loadEvents(1).                                                   *)
Mounted ==
    /\ events = <<>>
    /\ persons = {}
    /\ loading = TRUE
    /\ loadingMore = FALSE
    /\ hasNext = FALSE
    /\ currentPage = 1
    /\ error = null
    /\ inView = FALSE
    /\ navigateToDate = EmptyDate
    /\ visibleStartDate = EmptyDate
    /\ visibleEndDate = EmptyDate
    /\ issued = <<Issue(InitialRequest, "initial", <<>>)>>
    /\ status = <<"pending">>
    /\ listFrom = 0
    /\ lastFailed = 0
    /\ lastOp = Op("mount", 1, TRUE, EmptyDate)

\* no rows rendered yet
NoGaps == timeZone = 0 /\ timestamps = <<>> /\ gaps = <<>>

\* a turn of the minimap: the event (op) and what came with it (arg), and
\* the arguments of the calls of onDateClick it made, in order
MinimapOp(name, arg, calls) == [op |-> name, arg |-> arg, calls |-> calls]

\* the minimap after its first render: its timeline fetch is outstanding
MinimapMounted ==
    /\ timelineData = <<>>
    /\ firstTouchpoints = <<>>
    /\ minimapLoading = TRUE
    /\ minimapError = null
    /\ touchpointMarkers = <<>>
    /\ timelineFetches = 1
    /\ minimapOp = MinimapOp("mount", 0, <<>>)

\* no call of ApiService is followed on its own
ApiIdle ==
    /\ apiCall = [fn |-> "none", page |-> undefined, pageSize |-> undefined,
                  targetDate |-> undefined]
    /\ requests = <<>>
    /\ outcome = [kind |-> "none", ok |-> FALSE, statusText |-> "",
                  json |-> "", error |-> ""]
    /\ apiResult = [state |-> "idle", value |-> ""]

\* no debounced function has been made
DebounceIdle ==
    /\ wait = 0 /\ now = 0 /\ timers = {} /\ timeout = undefined
    /\ debounceCalls = <<>> /\ invocations = <<>>

\* the timeline endpoint is not followed on its own
ServerIdle ==
    /\ dataset = <<>>
    /\ timeline = [computed |-> FALSE, timeline_data |-> <<>>,
                   first_touchpoints |-> <<>>]

LibIdle == ApiIdle /\ DebounceIdle /\ ServerIdle

Init == Mounted /\ NoGaps /\ MinimapMounted /\ clientWidth = 0 /\ LibIdle

\* the call `id` resolves
FetchResolves(id) ==
    /\ status[id] = "pending"
    /\ listFrom' = IF issued[id].append THEN listFrom ELSE id
    /\ lastFailed' = lastFailed
    /\ Commit(LoadEventsSettle(Table, issued[id], TRUE), Page, inView, issued,
              [status EXCEPT ![id] = "ok"], TRUE,
              Op("settle", id, TRUE, EmptyDate))

\* the call `id` rejects
FetchRejects(id) ==
    /\ status[id] = "pending"
    /\ listFrom' = listFrom
    /\ lastFailed' = id
    /\ Commit(LoadEventsSettle(Table, issued[id], FALSE), Page, inView, issued,
              [status EXCEPT ![id] = "failed"], FALSE,
              Op("settle", id, FALSE, EmptyDate))

\* a click on the chart or on a touchpoint marker: onDateClick(d)
DateClick(d) ==
    /\ UNCHANGED <<listFrom, lastFailed>>
    /\ Commit(Table, HandleDateClick(Page, d), inView, issued, status, FALSE,
              Op("click", 0, TRUE, d))

\* the Retry button of the error view
Retry ==
    /\ RetryRendered(Table)
    /\ UNCHANGED <<listFrom, lastFailed>>
    /\ Commit(LoadEventsStart(Table, RetryRequest), Page, inView,
              Append(issued, Issue(RetryRequest, "retry", status)),
              Append(status, "pending"), FALSE,
              Op("retry", 0, TRUE, EmptyDate))

\* the intersection observer reports the sentinel entering the viewport
SentinelEnters ==
    /\ SentinelMounted(Table)
    /\ ~inView
    /\ UNCHANGED <<listFrom, lastFailed>>
    /\ Commit(Table, Page, TRUE, issued, status, FALSE,
              Op("scroll", 0, TRUE, EmptyDate))

\* the intersection observer reports the sentinel leaving the viewport
SentinelLeaves ==
    /\ inView
    /\ UNCHANGED <<listFrom, lastFailed>>
    /\ Commit(Table, Page, FALSE, issued, status, FALSE,
              Op("scroll", 0, FALSE, EmptyDate))

Next ==
    \/ \E id \in 1..Len(issued) : FetchResolves(id)
    \/ \E id \in 1..Len(issued) : FetchRejects(id)
    \/ \E d \in NavDates : DateClick(d)
    \/ Retry
    \/ SentinelEnters
    \/ SentinelLeaves

Spec == Init /\ [][Next]_vars

\* the table once its initial load has resolved
ReadyTable ==
    LoadEventsSettle([events |-> <<>>, persons |-> {}, loading |-> TRUE,
                      loadingMore |-> FALSE, hasNext |-> FALSE,
                      currentPage |-> 1, error |-> null],
                     InitialRequest, TRUE)

\* the first page is loaded and its range reported; the calls are logged
\* from here on
Ready ==
    /\ events = ReadyTable.events
    /\ persons = ReadyTable.persons
    /\ loading = ReadyTable.loading
    /\ loadingMore = ReadyTable.loadingMore
    /\ hasNext = ReadyTable.hasNext
    /\ currentPage = ReadyTable.currentPage
    /\ error = ReadyTable.error
    /\ inView = FALSE
    /\ navigateToDate = EmptyDate
    /\ visibleStartDate = VisibleRange(ReadyTable.events)[1]
    /\ visibleEndDate = VisibleRange(ReadyTable.events)[2]
    /\ issued = <<>>
    /\ status = <<>>
    /\ listFrom = 0
    /\ lastFailed = 0
    /\ lastOp = Op("mount", 0, TRUE, EmptyDate)

InitReady == Ready /\ NoGaps /\ MinimapMounted /\ clientWidth = 0 /\ LibIdle

\* the table from its Ready state on
SpecReady == InitReady /\ [][Next]_vars

----------------------------------------------------------------------------
(* Home on its own: its three callbacks, called by its children in any    *)
(* order and with any dates.                                               *)

HomeDates == {EmptyDate} \cup NavDates

\* a turn of Home alone: the callback called and its arguments
HomeTurn(p, name, args) ==
    /\ visibleStartDate' = p.visibleStartDate
    /\ visibleEndDate' = p.visibleEndDate
    /\ navigateToDate' = p.navigateToDate
    /\ lastOp' = Op(name, 0, TRUE, args)
    /\ UNCHANGED <<events, persons, loading, loadingMore, hasNext, currentPage,
                   error, inView, issued, status, listFrom, lastFailed>>
    /\ UNCHANGED <<gapVars, minimapVars, libVars>>

\* onVisibleRangeChange(startDate, endDate)
OnVisibleRangeChange(startDate, endDate) ==
    HomeTurn(HandleVisibleRangeChange(Page, startDate, endDate),
             "onVisibleRangeChange", <<startDate, endDate>>)

\* onDateClick(date)
OnDateClick(date) ==
    HomeTurn(HandleDateClick(Page, date), "onDateClick", <<date>>)

\* onNavigationComplete()
OnNavigationComplete ==
    HomeTurn(HandleNavigationComplete(Page), "onNavigationComplete", <<>>)

NextHome ==
    \/ \E startDate, endDate \in HomeDates :
           OnVisibleRangeChange(startDate, endDate)
    \/ \E date \in HomeDates : OnDateClick(date)
    \/ OnNavigationComplete

SpecHome == Init /\ [][NextHome]_vars

\* the settling of some outstanding call
Settle == \E id \in 1..Len(issued) : FetchResolves(id) \/ FetchRejects(id)

\* a turn the user starts: a click, the Retry button, scrolling
UserTurn ==
    \/ \E d \in NavDates : DateClick(d)
    \/ Retry
    \/ SentinelEnters
    \/ SentinelLeaves

\* the settling of call `id` makes the infinite-scroll effect call loadEvents
SettleIssues(id, ok) ==
    LET t == LoadEventsSettle(Table, issued[id], ok)
    IN /\ ScrollDeps(t, inView) # ScrollDeps(Table, inView)
       /\ ScrollCondition(t, inView)

\* some outstanding call can settle: ENABLED <<Settle>>_vars, written out
CanSettle ==
    \E id \in 1..Len(issued) :
        /\ status[id] = "pending"
        /\ \E ok \in BOOLEAN :
               Len(issued) + (IF SettleIssues(id, ok) THEN 1 ELSE 0) <= MaxFetches

\* WF_vars(Settle) with its ENABLED written out as CanSettle: a call that
\* is outstanding does settle
SettleFair == []<>(~CanSettle) \/ []<><<Settle>>_vars

\* the table when every call the network has accepted is answered in the end
SpecSettling == Init /\ [][Settle \/ UserTurn]_vars /\ SettleFair

TypeOK ==
    /\ loading \in BOOLEAN /\ loadingMore \in BOOLEAN /\ hasNext \in BOOLEAN
    /\ inView \in BOOLEAN
    /\ error \in {null, ErrorMessage}
    /\ navigateToDate \in {EmptyDate} \cup NavDates
    /\ Len(issued) = Len(status) /\ Len(issued) <= MaxFetches

----------------------------------------------------------------------------
(* Rendering of the rows: the gap between each row and the row above it.   *)
(* A timestamp is an instant named in UTC by its calendar day and its      *)
(* time of day, counted in ticks; the browser's zone is timeZone ticks     *)
(* ahead of UTC.  The rows are given, as any list of timestamps: the      *)
(* render does not depend on how the table came to hold them.              *)

MaxRows == 2          \* rows of one render
GapDays == 7          \* calendar days the timestamps are taken from
TicksPerDay == 2      \* times of day told apart

Instants == [date : 1..GapDays, time : 0..(TicksPerDay - 1)]
TimeZones == 0..(TicksPerDay - 1)
RowLists == UNION {[1..n -> Instants] : n \in 1..MaxRows}

Sign(n) == IF n > 0 THEN 1 ELSE IF n < 0 THEN -1 ELSE 0
Abs(n) == IF n < 0 THEN -n ELSE n

\* ticks since the start of day 0, UTC
Instant(ts) == ts.date * TicksPerDay + ts.time

\* parseISO: the Date of an ISO string, read through its local fields
ParseISO(ts) ==
    [date |-> (Instant(ts) + timeZone) \div TicksPerDay,
     time |-> (Instant(ts) + timeZone) % TicksPerDay]

\* date-fns: the sign of dateLeft - dateRight, compared field by field
CompareLocalAsc(dateLeft, dateRight) ==
    IF dateLeft.date # dateRight.date
    THEN Sign(dateLeft.date - dateRight.date)
    ELSE Sign(dateLeft.time - dateRight.time)

DifferenceInCalendarDays(dateLeft, dateRight) == dateLeft.date - dateRight.date

\* date-fns differenceInDays: full days, the last partial day not counted
DifferenceInDays(dateLeft, dateRight) ==
    LET sign == CompareLocalAsc(dateLeft, dateRight)
        difference == Abs(DifferenceInCalendarDays(dateLeft, dateRight))
        shifted == [dateLeft EXCEPT !.date = @ - sign * difference]
        isLastDayNotFull ==
            IF CompareLocalAsc(shifted, dateRight) = -sign THEN 1 ELSE 0
    IN sign * (difference - isLastDayNotFull)

CalculateDateGap(currentDate, previousDate) ==
    DifferenceInDays(ParseISO(currentDate), ParseISO(previousDate))

\* the indicator row is rendered (not null)
RenderGapIndicatorFromOne(days) == ~(days < 1)

RenderGapIndicator(days) == ~(days <= 1)

\* events.map((event, index) => ...): gap and indicator of each row
RenderRows(evs) ==
    [index \in 1..Len(evs) |->
        LET gap == IF index > 1
                   THEN CalculateDateGap(evs[index - 1], evs[index])
                   ELSE 0
        IN [gap |-> gap, indicator |-> RenderGapIndicator(gap)]]

InitGap ==
    /\ Mounted /\ MinimapMounted /\ clientWidth = 0 /\ LibIdle
    /\ timeZone \in TimeZones
    /\ timestamps \in RowLists
    /\ gaps = <<>>

\* the table renders its rows
Render ==
    /\ gaps = <<>>
    /\ gaps' = RenderRows(timestamps)
    /\ UNCHANGED <<timelineVars, minimapVars, libVars, timeZone, timestamps>>

NextGap == Render

SpecGap == InitGap /\ [][NextGap]_vars

----------------------------------------------------------------------------
(* ActivityMinimap: the timeline load of the mount effect and the memoized *)
(* projection of the first touchpoints onto the chart's date axis.  The    *)
(* minimap and the table share no state, so each has its own               *)
(* specification; the other component rests in its mounted state.          *)

AxisDays == 4         \* calendar days a bucket can stand for
MaxTouchpoints == 2   \* persons with a first touchpoint

Padding == 60             \* const padding = 60
DefaultChartWidth == 800  \* chartRef.current?.clientWidth || 800

\* widths of the chart container; 0 stands for every falsy value of
\* chartRef.current?.clientWidth (no element, or an element of width 0)
ClientWidths == {0, 400, 1000}

TimelineErrorMessage == "Failed to fetch timeline data: Internal Server Error"

\* a touchpoint can fall on a day before, between or after the buckets
TouchpointDates == 0..(AxisDays + 1)

\* the timeline endpoint: one bucket per day with inbound events, ascending
\* by date; one touchpoint per person
Axes ==
    {a \in UNION {[1..n -> 1..AxisDays] : n \in 0..AxisDays} :
        \A i \in 1..(Len(a) - 1) : a[i] < a[i + 1]}
TimelineResponses ==
    [timeline_data :
         {[i \in DOMAIN a |-> [date |-> a[i], count |-> 1]] : a \in Axes},
     first_touchpoints :
         UNION {{[i \in 1..k |-> [person_id |-> i, date |-> f[i]]] :
                     f \in [1..k -> TouchpointDates]} : k \in 0..MaxTouchpoints}]

\* chartData: each point with its parsed date and its label
ChartData(data) ==
    [i \in DOMAIN data |->
        [date |-> data[i].date, count |-> data[i].count,
         dateObj |-> [date |-> data[i].date, time |-> 0],
         formattedDate |-> <<"MMM d", data[i].date>>]]

\* Array.prototype.findIndex on the dates: 0-based, -1 when absent
FindIndex(chartData, date) ==
    IF \E i \in DOMAIN chartData : chartData[i].date = date
    THEN (CHOOSE i \in DOMAIN chartData :
              /\ chartData[i].date = date
              /\ \A j \in 1..(i - 1) : chartData[j].date # date) - 1
    ELSE -1

ChartWidth == IF clientWidth # 0 THEN clientWidth ELSE DefaultChartWidth
AvailableWidth == ChartWidth - (Padding * 2)

\* the index divided by the number of axis dates
PositionByLength(dateIndex, length) ==
    IF dateIndex >= 0 /\ length > 1
    THEN [num |-> dateIndex * AvailableWidth + Padding * length,
          den |-> length]
    ELSE [num |-> 0, den |-> 1]

\* the pixel position as the exact fraction num / den, den > 0:
\* (dateIndex / (length - 1)) * availableWidth + padding, or 0
Position(dateIndex, length) ==
    IF dateIndex >= 0 /\ length > 1
    THEN [num |-> dateIndex * AvailableWidth + Padding * (length - 1),
          den |-> length - 1]
    ELSE [num |-> 0, den |-> 1]

\* the touchpointMarkers memo
ComputeTouchpointMarkers(chartData, touchpoints) ==
    IF Len(chartData) = 0
    THEN <<>>
    ELSE [k \in DOMAIN touchpoints |->
             [person_id |-> touchpoints[k].person_id,
              date |-> touchpoints[k].date,
              x |-> Position(FindIndex(chartData, touchpoints[k].date),
                             Len(chartData))]]

\* variant: the position is written into the touchpoint itself
TouchpointAfterMapAssigning(touchpoint, position) ==
    [person_id |-> touchpoint.person_id, date |-> touchpoint.date,
     x |-> position]

\* a touchpoint after the callback of firstTouchpoints.map has run on it:
\* { ...touchpoint, x: position } is a new object, nothing is written to
\* the touchpoint
TouchpointAfterMap(touchpoint, position) == touchpoint

\* the firstTouchpoints array after the touchpointMarkers memo has run
TouchpointsAfterMemo(chartData, touchpoints) ==
    IF Len(chartData) = 0
    THEN touchpoints
    ELSE [k \in DOMAIN touchpoints |->
             TouchpointAfterMap(touchpoints[k],
                                Position(FindIndex(chartData,
                                                   touchpoints[k].date),
                                         Len(chartData)))]

\* the timelineData array after the chartData memo has run: its callback
\* ({ ...point, dateObj, formattedDate }) writes to no point
DataAfterMemo(data) == [i \in DOMAIN data |-> data[i]]

InitMinimap ==
    /\ Mounted /\ NoGaps /\ MinimapMounted /\ LibIdle
    /\ clientWidth \in ClientWidths

\* the minimap's state
Minimap ==
    [timelineData |-> timelineData, firstTouchpoints |-> firstTouchpoints,
     loading |-> minimapLoading, error |-> minimapError]

\* variant: the load effect depends on the visible range
TimelineEffectDepsOnRange(startDate, endDate) == <<startDate, endDate>>

\* dependency array of the timeline load effect: []
TimelineEffectDeps(startDate, endDate) == <<>>

\* one turn of the minimap: the state updates m of a handler, the props p
\* of the render that follows, its memos and its effects; the load effect
\* runs again (setLoading(true), fetchTimelineData) when a dependency changed
MinimapCommit(m, p, op) ==
    LET rerun == TimelineEffectDeps(p.visibleStartDate, p.visibleEndDate)
                 # TimelineEffectDeps(visibleStartDate, visibleEndDate)
        memo == m.timelineData # timelineData
                \/ m.firstTouchpoints # firstTouchpoints
    IN /\ timelineFetches + (IF rerun THEN 1 ELSE 0) <= MaxFetches
       /\ timelineData' = IF memo THEN DataAfterMemo(m.timelineData)
                          ELSE m.timelineData
       /\ firstTouchpoints' =
              IF memo
              THEN TouchpointsAfterMemo(ChartData(m.timelineData),
                                        m.firstTouchpoints)
              ELSE m.firstTouchpoints
       /\ minimapError' = m.error
       /\ minimapLoading' = (m.loading \/ rerun)
       /\ touchpointMarkers' =
              IF memo
              THEN ComputeTouchpointMarkers(ChartData(m.timelineData),
                                            m.firstTouchpoints)
              ELSE touchpointMarkers
       /\ timelineFetches' = timelineFetches + (IF rerun THEN 1 ELSE 0)
       /\ minimapOp' = op
       /\ visibleStartDate' = p.visibleStartDate
       /\ visibleEndDate' = p.visibleEndDate
       /\ UNCHANGED <<events, persons, loading, loadingMore, hasNext,
                      currentPage, error, inView, navigateToDate, issued,
                      status, listFrom, lastFailed, lastOp>>
       /\ UNCHANGED <<gapVars, libVars, clientWidth>>

\* variant: no finally block, loading is left as it is
LoadTimelineDataFailedKeepingLoading(m) ==
    [m EXCEPT !.error = TimelineErrorMessage]

\* loadTimelineData after a rejected await: catch and finally
LoadTimelineDataFailed(m) ==
    [m EXCEPT !.error = TimelineErrorMessage, !.loading = FALSE]

\* fetchTimelineData resolves: the state updates and the memos of the render
TimelineResolves(response) ==
    /\ minimapLoading
    /\ MinimapCommit([timelineData |-> response.timeline_data,
                      firstTouchpoints |-> response.first_touchpoints,
                      error |-> null, loading |-> FALSE],
                     Page, MinimapOp("resolve", response, <<>>))

\* fetchTimelineData rejects
TimelineRejects ==
    /\ minimapLoading
    /\ MinimapCommit(LoadTimelineDataFailed(Minimap), Page,
                     MinimapOp("reject", 0, <<>>))

NextMinimap ==
    \/ \E response \in TimelineResponses : TimelineResolves(response)
    \/ TimelineRejects

SpecMinimap == InitMinimap /\ [][NextMinimap]_vars

\* what the chart hands to onClick: nothing (null), or the chart state with
\* its activeLabel: undefined, '' or a date of the axis
ClickData ==
    {[isNull |-> TRUE, activeLabel |-> undefined]}
    \cup {[isNull |-> FALSE, activeLabel |-> l] :
              l \in {undefined, EmptyDate}
                    \cup {timelineData[i].date : i \in DOMAIN timelineData}}

\* the visible ranges the page can hand down: dates of loaded rows
VisibleRanges ==
    {r \in (FirstDay..LastDay) \X (FirstDay..LastDay) : r[1] <= r[2]}

\* the chart and its markers are rendered
ChartRendered == ~minimapLoading /\ minimapError = null

\* variant: the label is not tested
HandleChartClickAnyData(data) ==
    IF ~data.isNull THEN <<data.activeLabel>> ELSE <<>>

\* handleChartClick: the calls of onDateClick it makes
HandleChartClick(data) ==
    IF ~data.isNull /\ data.activeLabel \notin {undefined, EmptyDate}
    THEN <<data.activeLabel>>
    ELSE <<>>

\* a click on the chart.  The calls of onDateClick are recorded; what the
\* page and the table do with them is the action DateClick
ChartClick(data) ==
    /\ ChartRendered
    /\ MinimapCommit(Minimap, Page,
                     MinimapOp("chartClick", data, HandleChartClick(data)))

\* a click on the k-th marker: onClick={() => onDateClick(marker.date)}
MarkerClick(k) ==
    /\ ChartRendered
    /\ k \in DOMAIN touchpointMarkers
    /\ MinimapCommit(Minimap, Page,
                     MinimapOp("markerClick", k, <<touchpointMarkers[k].date>>))

\* the table reports a visible range: the page hands new props down
VisibleRangeChange(startDate, endDate) ==
    MinimapCommit(Minimap, HandleVisibleRangeChange(Page, startDate, endDate),
                  MinimapOp("range", 0, <<>>))

NextMinimapEvents ==
    \/ \E response \in TimelineResponses : TimelineResolves(response)
    \/ TimelineRejects
    \/ \E data \in ClickData : ChartClick(data)
    \/ \E k \in 1..MaxTouchpoints : MarkerClick(k)
    \/ \E r \in VisibleRanges : VisibleRangeChange(r[1], r[2])

SpecMinimapEvents == Init /\ [][NextMinimapEvents]_vars

----------------------------------------------------------------------------
(* ApiService, call by call: the request a call sends and what the call    *)
(* settles with for each outcome of the request.                           *)

API_BASE_URL == "http://localhost:8000"
DEFAULT_CUSTOMER_ORG_ID == "org_4m6zyrass98vvtk3xh5kcwcmaf"
DEFAULT_ACCOUNT_ID == "account_31crr1tcp2bmcv1fk6pcm0k6ag"
DefaultPage == 1          \* page: number = 1
DefaultPageSize == 50     \* pageSize: number = 50

\* Number.prototype.toString: the decimal digits, most significant first
RECURSIVE NumberToString(_)
NumberToString(n) ==
    IF n < 10 THEN <<n>> ELSE NumberToString(n \div 10) \o <<n % 10>>

\* variant: the date is appended whenever the argument is given
FetchActivityEventsRequestAnyDate(page, pageSize, targetDate) ==
    [url |-> API_BASE_URL \o "/api/events/",
     params |->
         <<<<"customer_org_id", DEFAULT_CUSTOMER_ORG_ID>>,
           <<"account_id", DEFAULT_ACCOUNT_ID>>,
           <<"page", NumberToString(IF page = undefined THEN DefaultPage ELSE page)>>,
           <<"page_size", NumberToString(IF pageSize = undefined
                                   THEN DefaultPageSize ELSE pageSize)>>>>
         \o (IF targetDate # undefined
             THEN <<<<"date", targetDate>>>> ELSE <<>>)]

\* fetchActivityEvents up to its fetch: the URL and the query parameters
FetchActivityEventsRequest(page, pageSize, targetDate) ==
    [url |-> API_BASE_URL \o "/api/events/",
     params |->
         <<<<"customer_org_id", DEFAULT_CUSTOMER_ORG_ID>>,
           <<"account_id", DEFAULT_ACCOUNT_ID>>,
           <<"page", NumberToString(IF page = undefined THEN DefaultPage ELSE page)>>,
           <<"page_size", NumberToString(IF pageSize = undefined
                                   THEN DefaultPageSize ELSE pageSize)>>>>
         \o (IF targetDate \notin {undefined, EmptyDate}
             THEN <<<<"date", targetDate>>>> ELSE <<>>)]

\* fetchTimelineData up to its fetch
FetchTimelineDataRequest ==
    [url |-> API_BASE_URL \o "/api/timeline/",
     params |-> <<<<"customer_org_id", DEFAULT_CUSTOMER_ORG_ID>>,
                  <<"account_id", DEFAULT_ACCOUNT_ID>>>>]

\* what fetch settles with: a response, or a rejection (network failure)
Outcome(kind, ok, statusText, json, err) ==
    [kind |-> kind, ok |-> ok, statusText |-> statusText, json |-> json,
     error |-> err]
NoOutcome == Outcome("none", FALSE, "", "", "")
StatusTexts == {"Internal Server Error", "Bad Request", ""}
JsonBodies == {"{}", "{\"detail\": \"x\"}"}
Outcomes ==
    {Outcome("response", TRUE, "OK", b, "") : b \in JsonBodies}
    \cup {Outcome("response", FALSE, s, b, "") :
              s \in StatusTexts, b \in JsonBodies}
    \cup {Outcome("rejection", FALSE, "", "", "Network error")}

Resolved(value) == [state |-> "resolved", value |-> value]
Rejected(value) == [state |-> "rejected", value |-> value]

\* variant: the body is returned whatever the status
FetchActivityEventsSettleAnyStatus(o) ==
    IF o.kind = "rejection" THEN Rejected(o.error) ELSE Resolved(o.json)

\* fetchActivityEvents after its fetch
FetchActivityEventsSettle(o) ==
    IF o.kind = "rejection" THEN Rejected(o.error)
    ELSE IF ~o.ok
         THEN Rejected("Failed to fetch activity events: " \o o.statusText)
         ELSE Resolved(o.json)

\* fetchTimelineData after its fetch
FetchTimelineDataSettle(o) ==
    IF o.kind = "rejection" THEN Rejected(o.error)
    ELSE IF ~o.ok
         THEN Rejected("Failed to fetch timeline data: " \o o.statusText)
         ELSE Resolved(o.json)

\* the calls: an argument left out is undefined
ApiCalls ==
    [fn : {"fetchActivityEvents"}, page : {undefined, 1, 2, 12},
     pageSize : {undefined, 25, 50}, targetDate : {undefined, EmptyDate, 1, 2}]
    \cup {[fn |-> "fetchTimelineData", page |-> undefined,
           pageSize |-> undefined, targetDate |-> undefined]}

InitApi ==
    /\ Mounted /\ NoGaps /\ MinimapMounted /\ clientWidth = 0
    /\ DebounceIdle /\ ServerIdle
    /\ apiCall \in ApiCalls
    /\ requests = <<>>
    /\ outcome = NoOutcome
    /\ apiResult = [state |-> "idle", value |-> ""]

\* the call runs to its await: one fetch
ApiInvoke ==
    /\ apiResult.state = "idle"
    /\ requests' =
           Append(requests,
                  IF apiCall.fn = "fetchActivityEvents"
                  THEN FetchActivityEventsRequest(apiCall.page, apiCall.pageSize,
                                                  apiCall.targetDate)
                  ELSE FetchTimelineDataRequest)
    /\ apiResult' = [state |-> "pending", value |-> ""]
    /\ UNCHANGED <<timelineVars, gapVars, minimapVars, debounceVars,
                   serverVars, apiCall, outcome>>

\* the fetch settles and the call with it
ApiSettle(o) ==
    /\ apiResult.state = "pending"
    /\ outcome' = o
    /\ apiResult' = IF apiCall.fn = "fetchActivityEvents"
                    THEN FetchActivityEventsSettle(o)
                    ELSE FetchTimelineDataSettle(o)
    /\ UNCHANGED <<timelineVars, gapVars, minimapVars, debounceVars,
                   serverVars, apiCall, requests>>

NextApi ==
    \/ ApiInvoke
    \/ \E o \in Outcomes : ApiSettle(o)

SpecApi == InitApi /\ [][NextApi]_vars

----------------------------------------------------------------------------
(* debounce(func, wait): the debounced function, the timers it sets and    *)
(* the clock.  Time is counted in ticks; a timer runs at the instant it is *)
(* due, before anything else that happens at that instant.                 *)

MaxTime == 4          \* instants the clock runs through
MaxWait == 2          \* longest wait, in ticks
MaxCalls == 3         \* calls of the debounced function in one run

DebounceArgs == {"first", "second"}

\* variant: the pending timer is left alone
ClearTimeoutKeeping(queue, handle) == queue

\* clearTimeout(timeout): the timer of that handle, if still set, is dropped
ClearTimeout(queue, handle) == {t \in queue : t.id # handle}

\* setTimeout(() => func(...args), wait) at the instant `at`, as timer `id`
SetTimeout(queue, id, at, delay, args) ==
    queue \cup {[id |-> id, due |-> at + delay, args |-> args]}

TimerDue == \E t \in timers : t.due <= now

InitDebounce ==
    /\ Mounted /\ NoGaps /\ MinimapMounted /\ clientWidth = 0
    /\ ApiIdle /\ ServerIdle
    /\ wait \in 1..MaxWait
    /\ now = 0
    /\ timers = {}
    /\ timeout = undefined
    /\ debounceCalls = <<>>
    /\ invocations = <<>>

\* a call of the debounced function
DebouncedCall(args) ==
    /\ ~TimerDue
    /\ Len(debounceCalls) < MaxCalls
    /\ timers' = SetTimeout(ClearTimeout(timers, timeout),
                            Len(debounceCalls) + 1, now, wait, args)
    /\ timeout' = Len(debounceCalls) + 1
    /\ debounceCalls' = Append(debounceCalls, [at |-> now, args |-> args])
    /\ UNCHANGED <<wait, now, invocations>>
    /\ UNCHANGED <<timelineVars, gapVars, minimapVars, apiVars, serverVars>>

\* a timer runs: func(...args)
TimerFires(t) ==
    /\ t \in timers
    /\ t.due <= now
    /\ timers' = timers \ {t}
    /\ invocations' = Append(invocations, [at |-> now, args |-> t.args])
    /\ UNCHANGED <<wait, now, timeout, debounceCalls>>
    /\ UNCHANGED <<timelineVars, gapVars, minimapVars, apiVars, serverVars>>

\* the clock advances
Tick ==
    /\ ~TimerDue
    /\ now < MaxTime
    /\ now' = now + 1
    /\ UNCHANGED <<wait, timers, timeout, debounceCalls, invocations>>
    /\ UNCHANGED <<timelineVars, gapVars, minimapVars, apiVars, serverVars>>

NextDebounce ==
    \/ \E args \in DebounceArgs : DebouncedCall(args)
    \/ \E t \in timers : TimerFires(t)
    \/ Tick

SpecDebounce == InitDebounce /\ [][NextDebounce]_vars

----------------------------------------------------------------------------
(* The timeline endpoint: computeTimeline over the events in scope, one    *)
(* pass over the events for the daily inbound counts and the first         *)
(* touchpoint of each person.  The events of a dataset are listed by id.   *)

MaxDatasetEvents == 3   \* events in scope
DatasetDays == 2        \* calendar days the events fall on

DatasetPersons == {"p1", "p2"}
DatasetEvents ==
    [timestamp : [date : 1..DatasetDays, time : {0, 1}],
     direction : {"IN", "OUT"}, person : DatasetPersons]
Datasets == UNION {[1..n -> DatasetEvents] : n \in 0..MaxDatasetEvents}

\* variant: every event is counted, whatever its direction
RECURSIVE InboundCountsAnyDirection(_, _)
InboundCountsAnyDirection(evs, n) ==
    IF n = 0 THEN <<>>
    ELSE LET counts == InboundCountsAnyDirection(evs, n - 1)
             date == DatePrefix(evs[n].timestamp)
         IN IF date \in DOMAIN counts
            THEN [counts EXCEPT ![date] = @ + 1]
            ELSE counts @@ (date :> 1)

\* the inbound events among the first n, counted per calendar date
RECURSIVE InboundCounts(_, _)
InboundCounts(evs, n) ==
    IF n = 0 THEN <<>>
    ELSE LET counts == InboundCounts(evs, n - 1)
             date == DatePrefix(evs[n].timestamp)
         IN IF evs[n].direction # "IN" THEN counts
            ELSE IF date \in DOMAIN counts
                 THEN [counts EXCEPT ![date] = @ + 1]
                 ELSE counts @@ (date :> 1)

\* the members of a set of numbers, ascending
RECURSIVE Ascending(_)
Ascending(S) ==
    IF S = {} THEN <<>>
    ELSE LET least == CHOOSE x \in S : \A y \in S : x <= y
         IN <<least>> \o Ascending(S \ {least})

Buckets(evs) ==
    LET counts == InboundCounts(evs, Len(evs))
        dates == Ascending(DOMAIN counts)
    IN [i \in DOMAIN dates |-> [date |-> dates[i], count |-> counts[dates[i]]]]

\* event a precedes event b in the order by (timestamp, id)
Precedes(evs, a, b) ==
    \/ Instant(evs[a].timestamp) < Instant(evs[b].timestamp)
    \/ Instant(evs[a].timestamp) = Instant(evs[b].timestamp) /\ a < b

\* variant: the event of a person seen first in the list is kept
RECURSIVE FirstEventsAsListed(_, _)
FirstEventsAsListed(evs, n) ==
    IF n = 0 THEN <<>>
    ELSE LET first == FirstEventsAsListed(evs, n - 1)
             person == evs[n].person
         IN IF person \notin DOMAIN first THEN first @@ (person :> n)
            ELSE first

\* per person, the id of the earliest of the first n events
RECURSIVE FirstEvents(_, _)
FirstEvents(evs, n) ==
    IF n = 0 THEN <<>>
    ELSE LET first == FirstEvents(evs, n - 1)
             person == evs[n].person
         IN IF person \notin DOMAIN first THEN first @@ (person :> n)
            ELSE IF Precedes(evs, n, first[person])
                 THEN [first EXCEPT ![person] = n]
                 ELSE first

\* the members of a set of persons, in some order
RECURSIVE Listed(_)
Listed(S) ==
    IF S = {} THEN <<>>
    ELSE LET p == CHOOSE x \in S : TRUE IN <<p>> \o Listed(S \ {p})

Touchpoints(evs) ==
    LET first == FirstEvents(evs, Len(evs))
        people == Listed(DOMAIN first)
    IN [i \in DOMAIN people |->
           [person_id |-> people[i],
            timestamp |-> evs[first[people[i]]].timestamp,
            date |-> DatePrefix(evs[first[people[i]]].timestamp)]]

ComputeTimeline(evs) ==
    [timeline_data |-> Buckets(evs), first_touchpoints |-> Touchpoints(evs)]

InitTimeline ==
    /\ Mounted /\ NoGaps /\ MinimapMounted /\ clientWidth = 0
    /\ ApiIdle /\ DebounceIdle
    /\ dataset \in Datasets
    /\ timeline = [computed |-> FALSE, timeline_data |-> <<>>,
                   first_touchpoints |-> <<>>]

\* GET timeline: the aggregation of the dataset
GetTimeline ==
    /\ ~timeline.computed
    /\ timeline' = [computed |-> TRUE,
                    timeline_data |-> ComputeTimeline(dataset).timeline_data,
                    first_touchpoints |->
                        ComputeTimeline(dataset).first_touchpoints]
    /\ UNCHANGED <<timelineVars, gapVars, minimapVars, apiVars, debounceVars,
                   dataset>>

NextTimeline == GetTimeline

SpecTimeline == InitTimeline /\ [][NextTimeline]_vars

----------------------------------------------------------------------------
(* Properties *)

N == Len(issued)
AllSettled == \A i \in 1..N : status[i] # "pending"
ResponseOf(i) ==
    FetchActivityEvents(issued[i].page, issued[i].pageSize, issued[i].targetDate)
\* a call was made in the turn that ends in the primed state
IssuedInStep == Len(issued') > Len(issued)
NewCall == issued'[Len(issued')]

\* C1: when a navigation is requested while a load-more is outstanding and
\* both calls have resolved, with no call made after the navigation, the
\* loaded rows are exactly the rows of the navigation's response.
C1_NavigationWinsRace ==
    \A i, j \in 1..N :
        (/\ issued[i].kind = "loadMore"
         /\ issued[j].kind = "navigation"
         /\ i \in issued[j].outstanding
         /\ j = N
         /\ status[i] = "ok" /\ status[j] = "ok"
         /\ AllSettled)
        => events = ResponseOf(j).events

\* C2: the settling of a call that is not the most recently issued one
\* changes none of events, hasNext, currentPage and error.
C2_StaleResponseDiscarded ==
    [][(lastOp'.op = "settle" /\ lastOp'.id # N)
       => /\ events' = events
          /\ hasNext' = hasNext
          /\ currentPage' = currentPage
          /\ error' = error]_vars

\* C3: the loaded rows are strictly descending by (timestamp, id), and no
\* event of the dataset between the first and the last row is missing.
C3_RowsDescendingNoGap ==
    /\ \A i \in 1..(Len(events) - 1) : Later(events[i], events[i + 1])
    /\ Len(events) > 0 =>
         \A e \in EventIds :
            (Later(events[1], e) /\ Later(e, events[Len(events)]))
            => \E i \in 1..Len(events) : events[i] = e

\* C4: a load-more made while the rows come from a navigation to date D asks
\* for the next page of the listing bounded by D.
C4_LoadMoreKeepsDateBound ==
    [][(/\ IssuedInStep
        /\ NewCall.append
        /\ listFrom' # 0
        /\ issued'[listFrom'].kind = "navigation")
       => /\ NewCall.targetDate = issued'[listFrom'].targetDate
          /\ NewCall.page = issued'[listFrom'].page + 1]_vars

\* C5: when a call fails, error becomes non-null and events, persons,
\* hasNext and currentPage keep their values.
C5_FailureKeepsRows ==
    [][(lastOp'.op = "settle" /\ ~lastOp'.ok)
       => /\ error' # null
          /\ events' = events
          /\ persons' = persons
          /\ hasNext' = hasNext
          /\ currentPage' = currentPage]_vars

\* a call has failed while rows were loaded, and the rows are still there
C5_Witness ==
    /\ lastOp.op = "settle" /\ ~lastOp.ok
    /\ issued[lastOp.id].kind = "loadMore"
    /\ error # null
    /\ Len(events) = PageSize

\* C6: retry makes the call that failed again: same page, same target date,
\* same append / replace mode.
C6_RetrySameRequest ==
    [][(lastOp'.op = "retry" /\ IssuedInStep)
       => /\ NewCall.page = issued[lastFailed].page
          /\ NewCall.targetDate = issued[lastFailed].targetDate
          /\ NewCall.append = issued[lastFailed].append]_vars

\* C7: while the error is set no call is made except by retry or by a
\* navigation request.
C7_NoAutomaticRetry ==
    [][(IssuedInStep /\ error' # null) => lastOp'.op \in {"retry", "click"}]_vars

\* C8: a load-more is made only when no other call is outstanding.
C8_LoadMoreOnlyWhenIdle ==
    \A i \in 1..N : issued[i].append => issued[i].outstanding = {}

\* C9: a date click makes exactly one call (page 1, page size 50, the
\* clicked date, replace) and leaves no navigation request pending; no other
\* turn makes a call with a target date.
C9_NavigationOneShot ==
    [][/\ navigateToDate' = EmptyDate
       /\ lastOp'.op = "click"
          => /\ Len(issued') = Len(issued) + 1
             /\ NewCall.page = 1
             /\ NewCall.pageSize = 50
             /\ NewCall.targetDate = lastOp'.date
             /\ ~NewCall.append
       /\ lastOp'.op # "click"
          => \A k \in (Len(issued) + 1)..Len(issued') :
                issued'[k].targetDate = undefined]_vars

\* a navigation has resolved, replaced the rows and emitted their range
C9_Witness ==
    /\ lastOp.op = "settle" /\ lastOp.ok
    /\ issued[lastOp.id].targetDate = FirstDay
    /\ events = ResponseOf(lastOp.id).events
    /\ visibleEndDate = FirstDay
    /\ navigateToDate = EmptyDate
    /\ Cardinality({i \in 1..N : issued[i].targetDate # undefined}) = 1

\* C10: when rows are loaded, the visible range of the page is (minimum
\* date, maximum date) over all loaded rows, so startDate <= endDate.
C10_VisibleRangeIsMinMax ==
    Len(events) > 0 =>
       LET dates == {DatePrefix(Timestamp(events[i])) : i \in 1..Len(events)}
       IN /\ visibleStartDate \in dates
          /\ visibleEndDate \in dates
          /\ \A d \in dates : visibleStartDate <= d /\ d <= visibleEndDate
          /\ visibleStartDate <= visibleEndDate

\* C11: the visible range of the page is empty exactly when no rows are
\* loaded; after a replace with zero events it is empty.
C11_RangeEmptyIffNoRows ==
    (Len(events) = 0) <=>
        (visibleStartDate = EmptyDate /\ visibleEndDate = EmptyDate)

\* C12: for rows in descending order t1 > ... > tn, n >= 1, the visible
\* range is (date of tn, date of t1).
C12_RangeOfDescendingRows ==
    (/\ Len(events) >= 1
     /\ \A i \in 1..(Len(events) - 1) : Later(events[i], events[i + 1]))
    => /\ visibleStartDate = Timestamp(events[Len(events)]).date
       /\ visibleEndDate = Timestamp(events[1]).date

\* descending rows that span two calendar days have been loaded
C12_Witness ==
    /\ Len(events) = 2 * PageSize
    /\ \A i \in 1..(Len(events) - 1) : Later(events[i], events[i + 1])
    /\ visibleStartDate = FirstDay
    /\ visibleEndDate = FirstDay + 1

\* C13: onVisibleRangeChange is called exactly once in a turn that changes
\* the loaded rows (a response applied: initial load, append, replace) and
\* not at all in any other turn.
C13_OneEmissionPerMutation ==
    [][IF lastOp'.op = "settle" /\ lastOp'.ok
       THEN lastOp'.emits = 1
       ELSE lastOp'.emits = 0]_vars

\* C14: a successful response is merged by the mode of its call: replace
\* sets the rows to the response's events, append puts them after the rows;
\* hasNext and currentPage become the response's, error becomes null.
C14_MergeByMode ==
    [][(lastOp'.op = "settle" /\ lastOp'.ok)
       => LET id == lastOp'.id
              response == ResponseOf(id)
          IN /\ events' = IF issued[id].append
                          THEN events \o response.events
                          ELSE response.events
             /\ hasNext' = response.pagination.has_next
             /\ currentPage' = response.pagination.current_page
             /\ error' = null]_vars

\* an append has resolved and its page follows the first page
C14_Witness ==
    /\ lastOp.op = "settle" /\ lastOp.ok
    /\ issued[lastOp.id].append
    /\ Len(events) = 2 * PageSize
    /\ currentPage = 2

\* C15: the table only takes the transitions of the pagination state
\* machine; in particular loading and loadingMore are never both true.
C15_OneLoadingStateAtATime == ~(loading /\ loadingMore)

\* C16: retry makes a replace call from the error state, and when that call
\* resolves error is null and the rows are the events of its response.
C16_RetryReplaces ==
    [][/\ lastOp'.op = "retry"
          => /\ error # null
             /\ IssuedInStep
             /\ ~NewCall.append
       /\ (/\ lastOp'.op = "settle" /\ lastOp'.ok
           /\ issued[lastOp'.id].kind = "retry")
          => /\ error' = null
             /\ events' = ResponseOf(lastOp'.id).events]_vars

\* a retry after a failed initial load has resolved
C16_Witness ==
    /\ lastOp.op = "settle" /\ lastOp.ok
    /\ issued[lastOp.id].kind = "retry"
    /\ status[1] = "failed"
    /\ error = null
    /\ Len(events) = PageSize

\* C17: a response with zero events and has_next = false is no error:
\* error is null, the rows are empty, both loading flags are false, and no
\* load-more is made while hasNext is false, wherever the sentinel is.
C17_EmptyPageIsNoError ==
    [][/\ (/\ lastOp'.op = "settle" /\ lastOp'.ok
           /\ ResponseOf(lastOp'.id).events = <<>>
           /\ ~ResponseOf(lastOp'.id).pagination.has_next)
          => /\ error' = null
             /\ events' = <<>>
             /\ ~loading' /\ ~loadingMore'
             /\ ~IssuedInStep
       /\ (IssuedInStep /\ NewCall.append) => hasNext']_vars

\* an empty page has been loaded after rows were there
C17_Witness ==
    /\ lastOp.op = "settle" /\ lastOp.ok
    /\ ResponseOf(lastOp.id).events = <<>>
    /\ events = <<>>
    /\ error = null
    /\ visibleEndDate # EmptyDate

\* C18: onNavigationComplete is called only after the navigation's call has
\* resolved and its response has replaced the rows.
C18_CompleteAfterReplace ==
    [][lastOp'.complete
       => \E j \in 1..Len(issued') :
             /\ issued'[j].kind = "navigation"
             /\ issued'[j].targetDate = lastOp'.date
             /\ status'[j] = "ok"
             /\ listFrom' = j]_vars

\* whole days from the older instant b to the newer instant a
WholeDaysBetween(a, b) == (Instant(a) - Instant(b)) \div TicksPerDay

\* C19: once the rows are rendered, for each row that follows a newer (or
\* equally old) row the gap is the number of whole days between the two
\* timestamps and the gap indicator is rendered before it exactly when that
\* number is greater than 1; no indicator is rendered before the first row.
C19_GapIsWholeDays ==
    gaps # <<>> =>
        /\ Len(gaps) = Len(timestamps)
        /\ ~gaps[1].indicator
        /\ \A k \in 2..Len(timestamps) :
               Instant(timestamps[k - 1]) >= Instant(timestamps[k])
               => /\ gaps[k].gap
                         = WholeDaysBetween(timestamps[k - 1], timestamps[k])
                  /\ gaps[k].indicator
                         <=> WholeDaysBetween(timestamps[k - 1],
                                              timestamps[k]) > 1

\* rendered rows 5 days apart to the tick: gap 5, indicator shown
C19_Witness ==
    /\ Len(gaps) = 2
    /\ timestamps[1].date = timestamps[2].date + 5
    /\ timestamps[1].time = timestamps[2].time
    /\ gaps[2] = [gap |-> 5, indicator |-> TRUE]
    /\ ~gaps[1].indicator

\* a <= b for two positions (fractions with positive denominators)
LessEq(a, b) == a.num * b.den <= b.num * a.den

\* the position the projection gives the i-th date of the axis
AxisPosition(i) == Position(i - 1, Len(timelineData))

\* the nearest axis dates around a date the axis lacks (the ends of the
\* axis when the date lies outside it)
NearestBefore(date) ==
    IF \E i \in DOMAIN timelineData : timelineData[i].date < date
    THEN CHOOSE i \in DOMAIN timelineData :
             /\ timelineData[i].date < date
             /\ \A j \in DOMAIN timelineData :
                    timelineData[j].date < date => j <= i
    ELSE 1
NearestAfter(date) ==
    IF \E i \in DOMAIN timelineData : timelineData[i].date > date
    THEN CHOOSE i \in DOMAIN timelineData :
             /\ timelineData[i].date > date
             /\ \A j \in DOMAIN timelineData :
                    timelineData[j].date > date => j >= i
    ELSE Len(timelineData)

\* C20: the marker of a touchpoint whose date the axis lacks lies between
\* the positions of the nearest axis dates before and after that date (at
\* the position of the nearest end of the axis when the date lies outside).
C20_AbsentDateInterpolated ==
    \A k \in DOMAIN touchpointMarkers :
        (\A i \in DOMAIN timelineData :
             timelineData[i].date # touchpointMarkers[k].date)
        => /\ LessEq(AxisPosition(NearestBefore(touchpointMarkers[k].date)),
                     touchpointMarkers[k].x)
           /\ LessEq(touchpointMarkers[k].x,
                     AxisPosition(NearestAfter(touchpointMarkers[k].date)))

\* the timeline fetch has resolved and the chart view is rendered
TimelineLoaded == ~minimapLoading /\ minimapError = null

\* C21: once the timeline response is in, there is exactly one marker for
\* each first touchpoint of the response, in the same order and for the
\* same person and date, whatever the axis is (empty, or without the
\* touchpoint's date).
C21_OneMarkerPerTouchpoint ==
    TimelineLoaded =>
        /\ Len(touchpointMarkers) = Len(firstTouchpoints)
        /\ \A k \in DOMAIN firstTouchpoints :
               /\ touchpointMarkers[k].person_id = firstTouchpoints[k].person_id
               /\ touchpointMarkers[k].date = firstTouchpoints[k].date

\* C22: for an axis of n > 1 dates the marker of a touchpoint whose date is
\* the axis date of index i (from 0) lies at
\* padding + i / (n - 1) * (width - 2 * padding), width being the chart
\* width the projection works with: the first axis date at the left margin,
\* the last at the right margin, and markers of later axis dates never to
\* the left of markers of earlier ones.
C22_LinearInterpolation ==
    LET n == Len(timelineData)
        m == touchpointMarkers
    IN \A k \in DOMAIN m : \A j \in DOMAIN timelineData :
           (n > 1 /\ timelineData[j].date = m[k].date)
           => /\ m[k].x.den > 0
              /\ m[k].x.num * (n - 1)
                     = m[k].x.den * (Padding * (n - 1)
                                     + (j - 1) * (ChartWidth - 2 * Padding))
              /\ j = 1 => m[k].x.num = Padding * m[k].x.den
              /\ j = n => m[k].x.num = (ChartWidth - Padding) * m[k].x.den
              /\ \A k2 \in DOMAIN m : \A j2 \in DOMAIN timelineData :
                     (timelineData[j2].date = m[k2].date /\ j <= j2)
                     => LessEq(m[k].x, m[k2].x)

\* two markers on an axis of three dates in a container 400 wide: the
\* second axis date at 200, the third at the right margin, 340
C22_Witness ==
    /\ TimelineLoaded
    /\ Len(timelineData) = 3
    /\ clientWidth = 400
    /\ Len(touchpointMarkers) = 2
    /\ touchpointMarkers[1].date = timelineData[2].date
    /\ touchpointMarkers[1].x = [num |-> 400, den |-> 2]
    /\ touchpointMarkers[2].date = timelineData[3].date
    /\ touchpointMarkers[2].x = [num |-> 680, den |-> 2]

\* C23: fetchTimelineData has been called exactly once, at mount, in every
\* state the minimap reaches through visible-range changes, chart clicks,
\* marker clicks and the settling of its fetch.
C23_TimelineFetchedOnce == timelineFetches = 1

\* the range has changed and a marker has been clicked after the load
C23_Witness ==
    /\ TimelineLoaded
    /\ visibleStartDate = FirstDay /\ visibleEndDate = LastDay
    /\ minimapOp.op = "markerClick"
    /\ timelineFetches = 1

\* C24: a click on the chart calls onDateClick once, with the active label,
\* when it carries one, and not at all otherwise; a click on a marker
\* calls onDateClick once with the date of the marker's touchpoint.
C24_ClickCallsOnDateClick ==
    [][/\ minimapOp'.op = "chartClick"
          => minimapOp'.calls
                 = IF /\ ~minimapOp'.arg.isNull
                      /\ \E i \in DOMAIN timelineData :
                             timelineData[i].date = minimapOp'.arg.activeLabel
                   THEN <<minimapOp'.arg.activeLabel>>
                   ELSE <<>>
       /\ minimapOp'.op = "markerClick"
          => minimapOp'.calls = <<firstTouchpoints[minimapOp'.arg].date>>]_vars

\* a click on the chart's second date: one call, with that date
C24_Witness ==
    /\ minimapOp.op = "chartClick"
    /\ Len(timelineData) >= 2
    /\ minimapOp.calls = <<timelineData[2].date>>

\* the number a string of decimal digits denotes
RECURSIVE ParseInt(_)
ParseInt(digits) ==
    IF Len(digits) = 0 THEN 0
    ELSE ParseInt(SubSeq(digits, 1, Len(digits) - 1)) * 10 + digits[Len(digits)]

\* the positions of a key among the query parameters of a request
ParamsNamed(request, key) ==
    {i \in DOMAIN request.params : request.params[i][1] = key}
ParamValue(request, key) ==
    request.params[CHOOSE i \in ParamsNamed(request, key) : TRUE][2]

\* C25: a call of fetchActivityEvents that has run has sent exactly one
\* request, to /api/events/, with the two scope identifiers, page and
\* page_size (1 and 50 when left out), each once, and with a date parameter
\* exactly when targetDate was given and is not empty, equal to it; when the
\* response is OK the call resolves with the body of the response.
C25_EventsRequest ==
    (apiCall.fn = "fetchActivityEvents" /\ apiResult.state # "idle")
    => /\ Len(requests) = 1
       /\ requests[1].url = "http://localhost:8000/api/events/"
       /\ \A key \in {"customer_org_id", "account_id", "page", "page_size"} :
              Cardinality(ParamsNamed(requests[1], key)) = 1
       /\ ParamValue(requests[1], "customer_org_id")
              = "org_4m6zyrass98vvtk3xh5kcwcmaf"
       /\ ParamValue(requests[1], "account_id")
              = "account_31crr1tcp2bmcv1fk6pcm0k6ag"
       /\ ParseInt(ParamValue(requests[1], "page"))
              = (IF apiCall.page = undefined THEN 1 ELSE apiCall.page)
       /\ ParseInt(ParamValue(requests[1], "page_size"))
              = (IF apiCall.pageSize = undefined THEN 50 ELSE apiCall.pageSize)
       /\ Cardinality(ParamsNamed(requests[1], "date"))
              = (IF apiCall.targetDate \in {undefined, EmptyDate} THEN 0 ELSE 1)
       /\ ParamsNamed(requests[1], "date") # {}
              => ParamValue(requests[1], "date") = apiCall.targetDate
       /\ Len(requests[1].params)
              = 4 + Cardinality(ParamsNamed(requests[1], "date"))
       /\ (outcome.kind = "response" /\ outcome.ok)
              => apiResult = [state |-> "resolved", value |-> outcome.json]

\* fetchActivityEvents(12, 25, day 1) resolved with the body of its response
C25_Witness ==
    /\ apiCall = [fn |-> "fetchActivityEvents", page |-> 12, pageSize |-> 25,
                  targetDate |-> 1]
    /\ Len(requests) = 1
    /\ Len(requests[1].params) = 5
    /\ requests[1].params[3] = <<"page", <<1, 2>>>>
    /\ requests[1].params[5] = <<"date", 1>>
    /\ outcome.ok
    /\ apiResult = [state |-> "resolved", value |-> "{}"]

\* C26: a call that has settled resolved only if its response was OK; for
\* a response that is not OK it rejected with 'Failed to fetch activity
\* events: ' or 'Failed to fetch timeline data: ' followed by the status
\* text; for a network failure it rejected with the error of the fetch.
C26_FailuresReject ==
    apiResult.state \in {"resolved", "rejected"}
    => /\ apiResult.state = "resolved"
              => (outcome.kind = "response" /\ outcome.ok)
       /\ (outcome.kind = "response" /\ ~outcome.ok)
              => apiResult
                     = [state |-> "rejected",
                        value |-> (IF apiCall.fn = "fetchActivityEvents"
                                   THEN "Failed to fetch activity events: "
                                   ELSE "Failed to fetch timeline data: ")
                                  \o outcome.statusText]
       /\ outcome.kind = "rejection"
              => apiResult = [state |-> "rejected", value |-> outcome.error]

\* fetchActivityEvents rejected for a 500 whose body is valid JSON
C26_Witness ==
    /\ apiCall.fn = "fetchActivityEvents"
    /\ outcome.kind = "response" /\ ~outcome.ok /\ outcome.json = "{}"
    /\ apiResult = [state |-> "rejected",
                    value |-> "Failed to fetch activity events: Internal Server Error"]

\* the k-th call ends a burst: no call follows it within less than wait
LastOfBurst(k) ==
    \/ k = Len(debounceCalls)
    \/ debounceCalls[k + 1].at - debounceCalls[k].at >= wait

\* the invocation a burst ending with the k-th call is due
InvocationOf(k) ==
    [at |-> debounceCalls[k].at + wait, args |-> debounceCalls[k].args]

\* C27: every invocation of func is the one of a burst, wait after the last
\* call of the burst (so never within a call) and with that call's
\* arguments; no burst is invoked twice; and every burst whose last call
\* lies more than wait back has been invoked.
C27_DebounceOncePerBurst ==
    /\ \A i \in DOMAIN invocations :
           \E k \in DOMAIN debounceCalls :
               /\ LastOfBurst(k)
               /\ invocations[i] = InvocationOf(k)
               /\ invocations[i].at > debounceCalls[k].at
    /\ \A i, j \in DOMAIN invocations :
           i # j => invocations[i].at # invocations[j].at
    /\ \A k \in DOMAIN debounceCalls :
           (LastOfBurst(k) /\ debounceCalls[k].at + wait < now)
           => \E i \in DOMAIN invocations : invocations[i] = InvocationOf(k)

\* two calls one tick apart with a wait of two ticks, invoked once for the
\* second, then a call that starts a new burst
C27_Witness ==
    /\ wait = 2
    /\ Len(debounceCalls) = 3
    /\ debounceCalls[1] = [at |-> 0, args |-> "first"]
    /\ debounceCalls[2] = [at |-> 1, args |-> "second"]
    /\ debounceCalls[3].at = 3
    /\ invocations = <<[at |-> 3, args |-> "second"]>>

\* the calls j - 1 and j are two navigations to the same date, each made
\* with no call outstanding, the first resolved, and j is the last call made
TwoNavigationsInARow(j) ==
    /\ j \in 2..N /\ j = N
    /\ issued[j].kind = "navigation" /\ issued[j - 1].kind = "navigation"
    /\ issued[j].targetDate = issued[j - 1].targetDate
    /\ issued[j].outstanding = {} /\ issued[j - 1].outstanding = {}
    /\ status[j - 1] = "ok"

\* C28: when the second of two navigations in a row to the same date
\* resolves, the rows, hasNext, currentPage and the visible range are what
\* the first navigation left.
C28_NavigationIdempotent ==
    [][(/\ lastOp'.op = "settle" /\ lastOp'.ok
        /\ TwoNavigationsInARow(lastOp'.id))
       => /\ events' = events
          /\ hasNext' = hasNext
          /\ currentPage' = currentPage
          /\ visibleStartDate' = visibleStartDate
          /\ visibleEndDate' = visibleEndDate]_vars

\* the second navigation to the first day has resolved: 50 rows, more to come
C28_Witness ==
    /\ lastOp.op = "settle" /\ lastOp.ok /\ lastOp.id = 3
    /\ N = 3
    /\ issued[2].kind = "navigation" /\ issued[3].kind = "navigation"
    /\ issued[2].targetDate = FirstDay /\ issued[3].targetDate = FirstDay
    /\ issued[2].outstanding = {} /\ issued[3].outstanding = {}
    /\ status = <<"ok", "ok", "ok">>
    /\ Len(events) = PageSize /\ hasNext
    /\ visibleStartDate = FirstDay /\ visibleEndDate = FirstDay

\* C29: after the timeline response has been taken in and the markers
\* computed, the buckets and the first touchpoints the minimap holds are
\* those of the response, field by field.
C29_ProjectionKeepsInputs ==
    minimapOp.op = "resolve"
    => /\ timelineData = minimapOp.arg.timeline_data
       /\ firstTouchpoints = minimapOp.arg.first_touchpoints

\* two markers computed on an axis of two dates, the inputs as received
C29_Witness ==
    /\ minimapOp.op = "resolve"
    /\ Len(timelineData) = 2
    /\ Len(touchpointMarkers) = 2
    /\ touchpointMarkers[2].x.num > 0
    /\ firstTouchpoints = minimapOp.arg.first_touchpoints
    /\ DOMAIN firstTouchpoints[2] = {"person_id", "date"}

\* the events of the dataset that are inbound and fall on a date
InboundOn(date) ==
    {i \in DOMAIN dataset : /\ dataset[i].direction = "IN"
                            /\ DatePrefix(dataset[i].timestamp) = date}

\* C30: in the timeline computed over a dataset, each bucket's count is the
\* number of inbound events of the dataset on the bucket's date, every date
\* with an inbound event has a bucket and no date without one has, and the
\* buckets are in strictly ascending order of date.
C30_BucketsCountInbound ==
    timeline.computed
    => LET buckets == timeline.timeline_data
       IN /\ \A i \in DOMAIN buckets :
                 /\ buckets[i].count = Cardinality(InboundOn(buckets[i].date))
                 /\ buckets[i].count > 0
          /\ \A date \in 1..DatasetDays :
                 InboundOn(date) # {}
                 => \E i \in DOMAIN buckets : buckets[i].date = date
          /\ \A i, j \in DOMAIN buckets :
                 i < j => buckets[i].date < buckets[j].date

\* two inbound events on the second day, listed before an inbound one on the
\* first day: two buckets in date order, counts 1 and 2
C30_Witness ==
    /\ timeline.computed
    /\ Len(dataset) = 3
    /\ dataset[1].direction = "IN" /\ dataset[1].timestamp.date = 2
    /\ dataset[2].direction = "IN" /\ dataset[2].timestamp.date = 1
    /\ dataset[3].direction = "IN" /\ dataset[3].timestamp.date = 2
    /\ timeline.timeline_data
         = <<[date |-> 1, count |-> 1], [date |-> 2, count |-> 2]>>

\* the events of the dataset that refer to a person
EventsOf(person) == {i \in DOMAIN dataset : dataset[i].person = person}

\* C31: in the timeline computed over a dataset, every person with at least
\* one event, of any direction, has exactly one first touchpoint, no other
\* person has one, and the touchpoint's timestamp is at or before the
\* timestamp of every event of that person.
C31_OneTouchpointPerPerson ==
    timeline.computed
    => LET touchpoints == timeline.first_touchpoints
       IN /\ \A person \in DatasetPersons :
                 Cardinality({i \in DOMAIN touchpoints :
                                 touchpoints[i].person_id = person})
                 = IF EventsOf(person) # {} THEN 1 ELSE 0
          /\ \A i \in DOMAIN touchpoints :
                 /\ touchpoints[i].person_id \in DatasetPersons
                 /\ \A e \in EventsOf(touchpoints[i].person_id) :
                        Instant(touchpoints[i].timestamp)
                        <= Instant(dataset[e].timestamp)
                 /\ touchpoints[i].date = DatePrefix(touchpoints[i].timestamp)

\* one person's outbound event on the first day is listed after their events
\* of the second day; the other person has one event
C31_Witness ==
    /\ timeline.computed
    /\ Len(dataset) = 3
    /\ dataset[1].person = "p1" /\ dataset[1].timestamp.date = 2
    /\ dataset[2].person = "p2"
    /\ dataset[3].person = "p1" /\ dataset[3].direction = "OUT"
    /\ dataset[3].timestamp = [date |-> 1, time |-> 1]
    /\ Len(timeline.first_touchpoints) = 2
    /\ \E i \in DOMAIN timeline.first_touchpoints :
           /\ timeline.first_touchpoints[i].person_id = "p1"
           /\ timeline.first_touchpoints[i].timestamp = dataset[3].timestamp

\* the calls that are outstanding, by fetch mode
Outstanding(append) ==
    {id \in 1..Len(issued) : status[id] = "pending" /\ issued[id].append = append}

\* C32: loading is true whenever a replace fetch (initial, navigation or
\* retry) is outstanding and loadingMore is true whenever an append fetch is
\* outstanding: the settling of one fetch does not clear the flag of another
\* fetch that is still outstanding.
C32_FlagsReflectOutstanding ==
    /\ Outstanding(FALSE) # {} => loading
    /\ Outstanding(TRUE) # {} => loadingMore

\* a call is outstanding and its settling would make one call more than the
\* runs followed here hold
AtFetchBound ==
    /\ \E id \in 1..Len(issued) : status[id] = "pending"
    /\ ~CanSettle

\* C33: when every outstanding call settles in the end and the user's turns
\* come to an end, loading and loadingMore are false from some point on.
C33_LoadingEnds ==
    <>[][~UserTurn]_vars => <>[](AtFetchBound \/ (~loading /\ ~loadingMore))

\* the pages 2 and 3 have been appended, the third by the infinite-scroll
\* effect on its own, and nothing is outstanding or loading
C33_Witness ==
    /\ Len(issued) = 3
    /\ issued[2].kind = "loadMore" /\ issued[3].kind = "loadMore"
    /\ status = <<"ok", "ok", "ok">>
    /\ issued[3].page = 3 /\ issued[3].outstanding = {}
    /\ lastOp.op = "settle" /\ lastOp.id = 3
    /\ Len(events) = NumEvents
    /\ ~loading /\ ~loadingMore /\ ~hasNext

\* C34: every page that is appended is the successor of the page of the
\* last successful response before it: the appended pages are 2, 3, 4, ...
\* with no page skipped and no page appended twice.
C34_ConsecutivePages ==
    [][(lastOp'.op = "settle" /\ lastOp'.ok /\ issued[lastOp'.id].append)
       => issued[lastOp'.id].page = currentPage + 1]_vars

\* C35: in every turn the persons map keeps its entries, and after it every
\* person referenced by a loaded row has an entry in the map.
C35_PersonsComplete ==
    [][/\ persons \subseteq persons'
       /\ \A i \in DOMAIN events' : PeopleOf(events'[i]) \subseteq persons']_vars

\* a navigation has replaced the rows by those up to the first day; the
\* persons of the rows replaced and of the new rows are in the map
C35_Witness ==
    /\ lastOp.op = "settle" /\ lastOp.ok
    /\ issued[lastOp.id].kind = "navigation"
    /\ issued[lastOp.id].targetDate = FirstDay
    /\ listFrom = lastOp.id
    /\ Len(events) = PageSize
    /\ persons = 1..NumPersons
    /\ \A i \in DOMAIN events : PeopleOf(events[i]) \subseteq persons

\* C36: a call of onVisibleRangeChange sets the visible range to its
\* arguments and leaves the pending navigation request as it is; a call of
\* onDateClick sets the pending request to its argument and leaves the
\* visible range as it is; a call of onNavigationComplete clears the pending
\* request and leaves the visible range as it is.
C36_CallbacksKeepTheRest ==
    [][/\ lastOp'.op = "onVisibleRangeChange"
          => /\ <<visibleStartDate', visibleEndDate'>> = lastOp'.date
             /\ navigateToDate' = navigateToDate
       /\ lastOp'.op = "onDateClick"
          => /\ <<navigateToDate'>> = lastOp'.date
             /\ UNCHANGED <<visibleStartDate, visibleEndDate>>
       /\ lastOp'.op = "onNavigationComplete"
          => /\ navigateToDate' = EmptyDate
             /\ UNCHANGED <<visibleStartDate, visibleEndDate>>]_vars

\* a date is clicked while a range is shown: the request is pending and the
\* range is still there
C36_Witness ==
    /\ lastOp.op = "onDateClick"
    /\ navigateToDate = LastDay
    /\ visibleStartDate = FirstDay /\ visibleEndDate = LastDay

\* C37: the error is null until a call settles; the settling of a call sets
\* it when the call failed and clears it when the call succeeded, and no
\* other turn changes it.  So the error is set exactly when the call that
\* settled last has failed, whether or not a call is outstanding.
C37_ErrorTracksLastSettle ==
    [][IF lastOp'.op = "settle"
       THEN (error' # null) <=> ~lastOp'.ok
       ELSE error' = error]_vars

\* the initial load has failed and the retry has succeeded: nothing is
\* outstanding and the error is cleared
C37_Witness ==
    /\ status = <<"failed", "ok">>
    /\ issued[2].kind = "retry"
    /\ lastOp.op = "settle" /\ lastOp.id = 2
    /\ lastFailed = 1
    /\ error = null

\* C38: the minimap starts loading with no data and no error.  When its
\* fetch resolves, loading is false, the error is null and the buckets and
\* touchpoints are those of the response; when it rejects, loading is false,
\* the error is set and the buckets and touchpoints are still empty.  Once
\* loading is false it stays false, and an error that is set stays as it is.
C38_MinimapLoadSettles ==
    /\ minimapLoading = TRUE /\ minimapError = null
    /\ timelineData = <<>> /\ firstTouchpoints = <<>>
    /\ [][/\ minimapOp'.op = "resolve"
             => /\ ~minimapLoading' /\ minimapError' = null
                /\ timelineData' = minimapOp'.arg.timeline_data
                /\ firstTouchpoints' = minimapOp'.arg.first_touchpoints
          /\ minimapOp'.op = "reject"
             => /\ ~minimapLoading' /\ minimapError' = TimelineErrorMessage
                /\ timelineData' = <<>> /\ firstTouchpoints' = <<>>
          /\ ~minimapLoading => ~minimapLoading'
          /\ minimapError # null => minimapError' = minimapError]_vars

\* the fetch has failed and the visible range has changed since: the error
\* view is still shown, with no data
C38_Witness ==
    /\ minimapOp.op = "range"
    /\ minimapError = TimelineErrorMessage
    /\ ~minimapLoading
    /\ timelineData = <<>> /\ firstTouchpoints = <<>>
    /\ visibleStartDate = FirstDay /\ visibleEndDate = LastDay

\* C39: the marker of a touchpoint whose date is on the axis lies between
\* the margins, padding <= x <= width - padding, whatever the number of
\* axis dates, one included.
C39_MarkersInsideDrawableArea ==
    \A k \in DOMAIN touchpointMarkers :
        (\E j \in DOMAIN timelineData :
             timelineData[j].date = touchpointMarkers[k].date)
        => /\ LessEq([num |-> Padding, den |-> 1], touchpointMarkers[k].x)
           /\ LessEq(touchpointMarkers[k].x,
                     [num |-> ChartWidth - Padding, den |-> 1])

====
